---- MODULE Spec2Model ----
(***************************************************************************)
(* A model of eval/score_eval.py: the two provider adapters                *)
(* (AliyunOptimizedEmbeddings, FixJsonChatOpenAI) and the evaluation       *)
(* script that loads results.json, runs the metric engine, exports         *)
(* metrics_report.csv and asks the chat model for report_analysis.md.      *)
(*                                                                         *)
(* Three specifications share the module:                                  *)
(*   Spec      one caller driving the adapters' six methods, each call     *)
(*             split at its one remote round trip;                         *)
(*   SpecLoad  the script's loading of results.json into the dataset;      *)
(*   SpecRun   the script from loading to its end.                         *)
(***************************************************************************)
EXTENDS Integers, Sequences, FiniteSets, TLC

\* ------------------------------------------------------------- bounds
\* Longest list handed to embed_documents / aembed_documents.
MaxTexts == 2
\* Largest chat result: one per generation plus one per character of its text
\* and message content.
MaxSize == 5
\* Most records of results.json when the whole script runs.
MaxItems == 2
\* Most records of results.json when only its loading is looked at.
MaxRecords == 1

VARIABLES
    pc,         \* adapter call: "idle", "waiting" (request in flight), "returned", "raised"
    op,         \* the adapter method being called ("none" when idle)
    arg,        \* its argument: the texts list (embed_documents), <<text>> (embed_query)
    requests,   \* payloads sent to the remote embedding endpoint during this call
    response,   \* what the remote side answered
    ret,        \* the value the method returned
    exc,        \* the exception the method raised ("none" when it returned)
    spc,        \* the script's position: "start", "loaded", "evaluating", "evaluated",
                \* "exported", "done", "crashed"
    results,    \* the records of results.json, which the script reads into `results`
    data,       \* the four columns built from results (the dataset)
    cells,      \* the metric engine's result per item index and metric
    attempts,   \* how often the engine computed each cell
    outOfOrder, \* whether some cell finished while an earlier item still had one pending
    df,         \* valid_results.to_pandas(): one row per item
    files,      \* metrics_report.csv and report_analysis.md on disk
    console,    \* what the script printed
    analysis,   \* how the analysis stage ended: "none", "saved", or the error it caught
    crashedAt   \* the stage whose exception ended the script ("none" otherwise)

adapterVars == <<pc, op, arg, requests, response, ret, exc>>
scriptVars == <<spc, results, data, cells, attempts, outOfOrder, df, files, console,
                analysis, crashedAt>>
vars == <<pc, op, arg, requests, response, ret, exc, spc, results, data, cells, attempts,
          outOfOrder, df, files, console, analysis, crashedAt>>

\* ------------------------------------------------------ Python values
\* A Python object as the sanitizer sees it: its type and its content.
PyNone == [type |-> "NoneType", i |-> 0, s |-> "", items |-> <<>>]
PyStr(s) == [type |-> "str", i |-> 0, s |-> s, items |-> <<>>]
PyInt(n) == [type |-> "int", i |-> n, s |-> "", items |-> <<>>]
PyBool(b) == [type |-> "bool", i |-> IF b THEN 1 ELSE 0, s |-> "", items |-> <<>>]
PyList(xs) == [type |-> "list", i |-> 0, s |-> "", items |-> xs]

\* bool(v): the test behind `if not t` and `if text`.
Truthy(v) ==
    CASE v.type = "NoneType" -> FALSE
      [] v.type = "str" -> v.s /= ""
      [] v.type = "int" -> v.i /= 0
      [] v.type = "bool" -> v.i /= 0
      [] v.type = "list" -> v.items /= <<>>

Digit(d) ==
    CASE d = 0 -> "0" [] d = 1 -> "1" [] d = 2 -> "2" [] d = 3 -> "3"
      [] d = 4 -> "4" [] d = 5 -> "5" [] d = 6 -> "6" [] d = 7 -> "7"
      [] d = 8 -> "8" [] d = 9 -> "9"

RECURSIVE NatToStr(_)
NatToStr(n) == IF n < 10 THEN Digit(n) ELSE NatToStr(n \div 10) \o Digit(n % 10)

\* repr() of a str without quotes or escapes in it, as inside str(list).
Repr(s) == "'" \o s \o "'"

RECURSIVE JoinRepr(_)
JoinRepr(xs) ==
    IF xs = <<>> THEN ""
    ELSE IF Len(xs) = 1 THEN Repr(xs[1])
    ELSE Repr(xs[1]) \o ", " \o JoinRepr(Tail(xs))

\* str(v)
Str(v) ==
    CASE v.type = "NoneType" -> "None"
      [] v.type = "str" -> v.s
      [] v.type = "int" -> IF v.i < 0 THEN "-" \o NatToStr(-v.i) ELSE NatToStr(v.i)
      [] v.type = "bool" -> IF v.i /= 0 THEN "True" ELSE "False"
      [] v.type = "list" -> "[" \o JoinRepr(v.items) \o "]"

\* The objects a caller hands to the embedding adapter.
EmbedInputs ==
    { PyNone, PyStr(""), PyStr("a"), PyStr(" "), PyInt(0), PyInt(42), PyInt(-7),
      PyBool(FALSE), PyBool(TRUE), PyList(<<>>), PyList(<<"c">>), PyList(<<"c", "d">>) }

RECURSIVE ListsOfLen(_, _)
ListsOfLen(S, n) ==
    IF n = 0 THEN {<<>>}
    ELSE {Append(l, x) : l \in ListsOfLen(S, n - 1), x \in S}

ListsUpTo(S, n) == UNION {ListsOfLen(S, k) : k \in 0..n}

\* ------------------------------------------- AliyunOptimizedEmbeddings
\* _sanitize: one entry appended per input entry.
RECURSIVE SanitizeLoop(_, _)
SanitizeLoop(texts, cleaned_texts) ==
    IF texts = <<>> THEN cleaned_texts
    ELSE LET t == Head(texts) IN
         SanitizeLoop(Tail(texts),
            IF ~Truthy(t) THEN Append(cleaned_texts, PyStr("unknown"))
            ELSE IF t.type = "str" THEN Append(cleaned_texts, t)
            ELSE Append(cleaned_texts, PyStr(Str(t))))

\* A sanitizer that forgets the placeholder: falsy entries are stringified like the rest.
_sanitize_no_placeholder(texts) ==
    [k \in 1..Len(texts) |-> IF texts[k].type = "str" THEN texts[k] ELSE PyStr(Str(texts[k]))]

\* A sanitizer that puts the placeholder wherever the entry is not a str.
_sanitize_placeholder_for_nontext(texts) ==
    [k \in 1..Len(texts) |->
        IF ~Truthy(texts[k]) \/ texts[k].type /= "str" THEN PyStr("unknown") ELSE texts[k]]

_sanitize(texts) == SanitizeLoop(texts, <<>>)

\* The remote endpoint's answer to embeddings.create(input=..., model=...): an
\* error, or one data entry per input entry, in input order.
ProviderErrors == {"RateLimitError", "AuthenticationError"}
EmbeddingOf(e) == [embedding_of |-> e.s]
EmbeddingsData(input) == [k \in 1..Len(input) |-> [index |-> k - 1, embedding |-> EmbeddingOf(input[k])]]
NoResponse == [error |-> "none", data |-> <<>>]

\* embed_documents without its `if not cleaned: return []`.
embed_documents_send_unguarded(texts) == [pc |-> "waiting", requests |-> <<_sanitize(texts)>>]

\* embed_documents up to its request: the sanitized list, an early [] when it is empty.
embed_documents_send(texts) ==
    LET cleaned == _sanitize(texts) IN
    IF cleaned = <<>> THEN [pc |-> "returned", requests |-> <<>>]
    ELSE [pc |-> "waiting", requests |-> <<cleaned>>]

\* embed_documents after the response: the embeddings in the order of resp.data.
embed_documents_result(resp) == [k \in 1..Len(resp.data) |-> resp.data[k].embedding]

aembed_documents_send(texts) ==
    LET cleaned == _sanitize(texts) IN
    IF cleaned = <<>> THEN [pc |-> "returned", requests |-> <<>>]
    ELSE [pc |-> "waiting", requests |-> <<cleaned>>]

aembed_documents_result(resp) == [k \in 1..Len(resp.data) |-> resp.data[k].embedding]

\* embed_query: clean_text = str(text) if text else "unknown", sent as a list of one.
embed_query_send(text) ==
    LET clean_text == IF Truthy(text) THEN PyStr(Str(text)) ELSE PyStr("unknown") IN
    [pc |-> "waiting", requests |-> << <<clean_text>> >>]

embed_query_result(resp) == <<resp.data[1].embedding>>

\* aembed_query with str(text) alone, the falsy test forgotten.
aembed_query_send_unchecked(text) == [pc |-> "waiting", requests |-> << <<PyStr(Str(text))>> >>]

aembed_query_send(text) ==
    LET clean_text == IF Truthy(text) THEN PyStr(Str(text)) ELSE PyStr("unknown") IN
    [pc |-> "waiting", requests |-> << <<clean_text>> >>]

aembed_query_result(resp) == <<resp.data[1].embedding>>

EmbedOps == {"embed_documents", "aembed_documents", "embed_query", "aembed_query"}

SendOf(o, a) ==
    CASE o = "embed_documents" -> embed_documents_send(a)
      [] o = "aembed_documents" -> aembed_documents_send(a)
      [] o = "embed_query" -> embed_query_send(a[1])
      [] o = "aembed_query" -> aembed_query_send(a[1])

ResultOf(o, resp) ==
    CASE o = "embed_documents" -> embed_documents_result(resp)
      [] o = "aembed_documents" -> aembed_documents_result(resp)
      [] o = "embed_query" -> embed_query_result(resp)
      [] o = "aembed_query" -> aembed_query_result(resp)

\* ---------------------------------------------------- FixJsonChatOpenAI
\* A text is the sequence of its characters.
Backslash == "\\"
Apostrophe == "'"
Alphabet == {Backslash, Apostrophe, "a"}

\* str.replace(old, new): the occurrences of old, found left to right without
\* overlap, each replaced by new.
RECURSIVE StrReplace(_, _, _)
StrReplace(s, old, new) ==
    IF Len(s) < Len(old) THEN s
    ELSE IF SubSeq(s, 1, Len(old)) = old
         THEN new \o StrReplace(SubSeq(s, Len(old) + 1, Len(s)), old, new)
         ELSE <<Head(s)>> \o StrReplace(Tail(s), old, new)

\* A repair that drops every backslash, escaped apostrophe or not.
_fix_json_drop_backslashes(text) == SelectSeq(text, LAMBDA ch : ch /= Backslash)

\* _fix_json: "" for an empty text, else text.replace(r"\'", "'").
_fix_json(text) ==
    IF text = <<>> THEN <<>>
    ELSE StrReplace(text, <<Backslash, Apostrophe>>, <<Apostrophe>>)

\* One generation of a chat result: its text and, when it has a message, the
\* message's content.
Generation(t, m, c) == [text |-> t, has_message |-> m, content |-> c]
\* A generation's size: one for itself and one per character.
GenSize(g) == 1 + Len(g.text) + Len(g.content)

\* The generations of size at most b.
GensWithin(b) ==
    IF b = 0 THEN {}
    ELSE {Generation(t, FALSE, <<>>) : t \in ListsUpTo(Alphabet, b - 1)}
         \cup UNION {{Generation(t, TRUE, c) : c \in ListsUpTo(Alphabet, b - 1 - Len(t))} :
                     t \in ListsUpTo(Alphabet, b - 1)}

\* The lists of generations whose sizes add up to at most b.
RECURSIVE GenListsWithin(_)
GenListsWithin(b) ==
    {<<>>} \cup UNION {{<<g>> \o rest : rest \in GenListsWithin(b - GenSize(g))} :
                       g \in GensWithin(b)}

\* What the chat model can answer super()._generate / super()._agenerate with.
ChatResults == GenListsWithin(MaxSize)

\* The loop of _generate over result.generations.
_generate_fix(generations) ==
    [k \in 1..Len(generations) |->
        LET gen == generations[k] IN
        Generation(_fix_json(gen.text), gen.has_message,
                   IF gen.has_message THEN _fix_json(gen.content) ELSE gen.content)]

\* The loop of _agenerate over result.generations.
_agenerate_fix(generations) ==
    [k \in 1..Len(generations) |->
        LET gen == generations[k] IN
        Generation(_fix_json(gen.text), gen.has_message,
                   IF gen.has_message THEN _fix_json(gen.content) ELSE gen.content)]

GenOps == {"_generate", "_agenerate"}

FixOf(o, generations) ==
    CASE o = "_generate" -> _generate_fix(generations)
      [] o = "_agenerate" -> _agenerate_fix(generations)

\* ------------------------------------------------------------ the script
Fields == {"question", "answer", "contexts", "ground_truth"}

\* A key a record of results.json does not have, and what r[key] then raises.
Absent == [type |-> "absent", i |-> 0, s |-> "", items |-> <<>>]
KeyError == [type |-> "KeyError", i |-> 0, s |-> "", items |-> <<>>]

\* The i-th record of a well-formed results.json.
Item(i) ==
    [question |-> PyStr("q" \o NatToStr(i)), answer |-> PyStr("a" \o NatToStr(i)),
     contexts |-> PyList(<<"c" \o NatToStr(i)>>), ground_truth |-> PyStr("g" \o NatToStr(i))]

\* Records as a JSON file can hold them: a key may be missing, a value may be null.
TextValues == {Absent, PyNone, PyStr(""), PyStr("x")}
ContextsValues == {Absent, PyNone, PyList(<<"c">>)}
JsonRecords ==
    [question : TextValues, answer : TextValues, contexts : ContextsValues,
     ground_truth : TextValues]

\* r.get(key) or "": a lookup that falls back to the empty string.
GetItemOrEmpty(r, key) == IF r[key] \in {Absent, PyNone} THEN PyStr("") ELSE r[key]

\* r[key]
GetItem(r, key) == IF r[key] = Absent THEN KeyError ELSE r[key]

\* The columns taken from the records last to first.
DataReversed(rs) ==
    [f \in Fields |-> [i \in 1..Len(rs) |-> GetItem(rs[Len(rs) + 1 - i], f)]]

\* data = {'question': [r['question'] for r in results], ...}
Data(rs) == [f \in Fields |-> [i \in 1..Len(rs) |-> GetItem(rs[i], f)]]

NoData == [f \in Fields |-> <<>>]

\* req_metrics, in the order the script lists them.
req_metrics == <<"faithfulness", "answer_relevancy", "context_precision", "context_recall">>
Metrics == {req_metrics[k] : k \in 1..Len(req_metrics)}

\* evaluate(..., raise_exceptions=True): a failed computation makes evaluate raise.
raise_exceptions_set == TRUE
\* evaluate(..., raise_exceptions=False)
raise_exceptions == FALSE

NaN == "nan"
\* The judge's score of one item on one metric.
Judge(question, m) == "score(" \o question.s \o "," \o m \o ")"

\* The row of item i: its four fields and its four cells.
Row(i) ==
    [question |-> data["question"][i], answer |-> data["answer"][i],
     contexts |-> data["contexts"][i], ground_truth |-> data["ground_truth"][i],
     scores |-> cells[i]]

\* df.to_csv(index=False): a header line and one line per row; a cell that was
\* not computed is written empty.
CsvCell(c) == IF c = NaN THEN "" ELSE c
CsvLine(row) ==
    <<Str(row.question), Str(row.answer), Str(row.contexts), Str(row.ground_truth)>>
    \o [k \in 1..Len(req_metrics) |-> CsvCell(row.scores[req_metrics[k]])]
CsvHeader == <<"question", "answer", "contexts", "ground_truth">> \o req_metrics
to_csv(frame) == <<CsvHeader>> \o [i \in 1..Len(frame) |-> CsvLine(frame[i])]

\* A file that does not exist; an existing file is the sequence of its lines.
NoFile == <<"<no such file>">>

\* The errors the analysis stage can meet: the chat call's, and open/write's.
AnalysisErrors == {"APIError", "OSError"}
\* A handler that catches the chat call's errors only.
CaughtApiOnly(e) == e = "APIError"
\* except Exception as e
Caught(e) == e \in AnalysisErrors

\* ------------------------------------------------------------ actions
\* A call of an embedding method, up to its request (or its early return).
EmbedCall(o, a) ==
    /\ pc = "idle"
    /\ op' = o
    /\ arg' = a
    /\ pc' = SendOf(o, a).pc
    /\ requests' = SendOf(o, a).requests
    /\ ret' = <<>>
    /\ exc' = "none"
    /\ response' = NoResponse
    /\ UNCHANGED scriptVars

embed_documents == \E texts \in ListsUpTo(EmbedInputs, MaxTexts) : EmbedCall("embed_documents", texts)
aembed_documents == \E texts \in ListsUpTo(EmbedInputs, MaxTexts) : EmbedCall("aembed_documents", texts)
embed_query == \E text \in EmbedInputs : EmbedCall("embed_query", <<text>>)
aembed_query == \E text \in EmbedInputs : EmbedCall("aembed_query", <<text>>)

\* The remote side answers the request in flight and the method finishes: it
\* returns the embeddings, or the provider's error propagates.
EmbedResponse ==
    /\ pc = "waiting"
    /\ op \in EmbedOps
    /\ \/ /\ response' = [error |-> "none", data |-> EmbeddingsData(requests[1])]
          /\ ret' = ResultOf(op, response')
          /\ exc' = "none"
          /\ pc' = "returned"
       \/ \E e \in ProviderErrors :
          /\ response' = [error |-> e, data |-> <<>>]
          /\ ret' = <<>>
          /\ exc' = e
          /\ pc' = "raised"
    /\ UNCHANGED <<op, arg, requests>>
    /\ UNCHANGED scriptVars

\* _generate / _agenerate up to the call of the wrapped chat model.
GenerateCall(o) ==
    /\ pc = "idle"
    /\ op' = o
    /\ pc' = "waiting"
    /\ arg' = <<>>
    /\ requests' = <<>>
    /\ ret' = <<>>
    /\ exc' = "none"
    /\ response' = NoResponse
    /\ UNCHANGED scriptVars

_generate == GenerateCall("_generate")
_agenerate == GenerateCall("_agenerate")

\* The chat model answers and the method repairs every generation, or the
\* model's error propagates.
GenerateResponse ==
    /\ pc = "waiting"
    /\ op \in GenOps
    /\ \/ \E result \in ChatResults :
          /\ response' = [error |-> "none", data |-> result]
          /\ ret' = FixOf(op, result)
          /\ exc' = "none"
          /\ pc' = "returned"
       \/ \E e \in ProviderErrors :
          /\ response' = [error |-> e, data |-> <<>>]
          /\ ret' = <<>>
          /\ exc' = e
          /\ pc' = "raised"
    /\ UNCHANGED <<op, arg, requests>>
    /\ UNCHANGED scriptVars

\* The caller takes the result and is free to call again.
Collect ==
    /\ pc \in {"returned", "raised"}
    /\ pc' = "idle"
    /\ op' = "none"
    /\ arg' = <<>>
    /\ requests' = <<>>
    /\ response' = NoResponse
    /\ ret' = <<>>
    /\ exc' = "none"
    /\ UNCHANGED scriptVars

AdapterIdle ==
    /\ pc = "idle"
    /\ op = "none"
    /\ arg = <<>>
    /\ requests = <<>>
    /\ response = NoResponse
    /\ ret = <<>>
    /\ exc = "none"

\* The script before its first statement.
ScriptStart ==
    /\ spc = "start"
    /\ results = <<>>
    /\ data = NoData
    /\ cells = <<>>
    /\ attempts = <<>>
    /\ outOfOrder = FALSE
    /\ df = <<>>
    /\ files = [metrics_report |-> NoFile, report_analysis |-> NoFile]
    /\ console = <<>>
    /\ analysis = "none"
    /\ crashedAt = "none"

Init == AdapterIdle /\ ScriptStart

Next ==
    \/ embed_documents
    \/ aembed_documents
    \/ embed_query
    \/ aembed_query
    \/ EmbedResponse
    \/ _generate
    \/ _agenerate
    \/ GenerateResponse
    \/ Collect

Spec == Init /\ [][Next]_vars

\* Before the script runs, the pipeline under evaluation leaves results.json
\* behind, one record after the other.
WriteRecord(r) ==
    /\ spc = "start"
    /\ results' = Append(results, r)
    /\ UNCHANGED <<spc, data, cells, attempts, outOfOrder, df, files, console, analysis,
                   crashedAt>>
    /\ UNCHANGED adapterVars

\* Lines 20-34: read results.json, build the four columns, make the dataset; a
\* record without one of the keys ends the script.
LoadDataset ==
    /\ spc = "start"
    /\ IF \E f \in Fields : \E i \in 1..Len(results) : Data(results)[f][i] = KeyError
       THEN /\ spc' = "crashed"
            /\ crashedAt' = "load"
            /\ UNCHANGED <<data, console>>
       ELSE /\ data' = Data(results)
            /\ console' = Append(console, "Starting Ragas evaluation...")
            /\ spc' = "loaded"
            /\ UNCHANGED crashedAt
    /\ UNCHANGED <<results, cells, attempts, outOfOrder, df, files, analysis>>
    /\ UNCHANGED adapterVars

\* evaluate() starts: one job per item and metric.
StartEvaluate ==
    /\ spc = "loaded"
    /\ spc' = "evaluating"
    /\ cells' = [i \in 1..Len(data["question"]) |-> [m \in Metrics |-> "pending"]]
    /\ attempts' = [i \in 1..Len(data["question"]) |-> [m \in Metrics |-> 0]]
    /\ UNCHANGED <<results, data, outOfOrder, df, files, console, analysis, crashedAt>>
    /\ UNCHANGED adapterVars

\* One job of the engine finishes, in any order: with the judge's score, or with
\* a failure, which is kept as NaN unless raise_exceptions makes evaluate raise.
ScoreJob(i, m) ==
    /\ spc = "evaluating"
    /\ cells[i][m] = "pending"
    /\ attempts' = [attempts EXCEPT ![i][m] = @ + 1]
    /\ outOfOrder' = (outOfOrder \/ \E j \in 1..(i - 1) : \E n \in Metrics : cells[j][n] = "pending")
    /\ \/ /\ cells' = [cells EXCEPT ![i][m] = Judge(data["question"][i], m)]
          /\ UNCHANGED <<spc, crashedAt>>
       \/ IF raise_exceptions
          THEN /\ spc' = "crashed"
               /\ crashedAt' = "evaluate"
               /\ UNCHANGED cells
          ELSE /\ cells' = [cells EXCEPT ![i][m] = NaN]
               /\ UNCHANGED <<spc, crashedAt>>
    /\ UNCHANGED <<results, data, df, files, console, analysis>>
    /\ UNCHANGED adapterVars

Score == \E i \in 1..Len(cells) : \E m \in Metrics : ScoreJob(i, m)

\* evaluate() returns once every job is done; lines 136-140 print the result
\* and turn it into the data frame, rows by item index.
FinishEvaluate ==
    /\ spc = "evaluating"
    /\ \A i \in 1..Len(cells) : \A m \in Metrics : cells[i][m] /= "pending"
    /\ df' = [i \in 1..Len(cells) |-> Row(i)]
    /\ console' = Append(console, "Evaluation Results:")
    /\ spc' = "evaluated"
    /\ UNCHANGED <<results, data, cells, attempts, outOfOrder, files, analysis, crashedAt>>
    /\ UNCHANGED adapterVars

\* Lines 141-142: df.to_csv('metrics_report.csv'); an I/O error is not caught.
Export ==
    /\ spc = "evaluated"
    /\ \/ /\ files' = [files EXCEPT !.metrics_report = to_csv(df)]
          /\ console' = Append(console, "Metrics saved to metrics_report.csv")
          /\ spc' = "exported"
          /\ UNCHANGED crashedAt
       \/ /\ spc' = "crashed"
          /\ crashedAt' = "export"
          /\ UNCHANGED <<files, console>>
    /\ UNCHANGED <<results, data, cells, attempts, outOfOrder, df, analysis>>
    /\ UNCHANGED adapterVars

\* An error of the analysis stage: caught and printed, or the end of the script.
AnalysisFails(e) ==
    IF Caught(e)
    THEN /\ console' = console \o <<"Generating analysis report with LLM...",
                                     "Error generating analysis: " \o e>>
         /\ analysis' = e
         /\ spc' = "done"
         /\ UNCHANGED crashedAt
    ELSE /\ spc' = "crashed"
         /\ crashedAt' = "analysis"
         /\ UNCHANGED <<console, analysis>>

\* Lines 145-183: the prompt around the CSV text, then inside try: llm.invoke,
\* open('report_analysis.md', 'w'), write. llm.invoke may raise; so may open,
\* leaving no file, and write, leaving the file open() truncated.
Analyse ==
    /\ spc = "exported"
    /\ \/ /\ files' = [files EXCEPT !.report_analysis = <<"narrative of">> \o to_csv(df)]
          /\ console' = console \o <<"Generating analysis report with LLM...",
                                      "Analysis saved to report_analysis.md">>
          /\ analysis' = "saved"
          /\ spc' = "done"
          /\ UNCHANGED crashedAt
       \/ /\ AnalysisFails("APIError")
          /\ UNCHANGED files
       \/ /\ AnalysisFails("OSError")
          /\ \/ UNCHANGED files
             \/ files' = [files EXCEPT !.report_analysis = <<>>]
    /\ UNCHANGED <<results, data, cells, attempts, outOfOrder, df>>
    /\ UNCHANGED adapterVars

\* Loading alone, over every shape of record.
WriteAnyRecord == Len(results) < MaxRecords /\ \E r \in JsonRecords : WriteRecord(r)
NextLoad ==
    \/ WriteAnyRecord
    \/ LoadDataset
SpecLoad == Init /\ [][NextLoad]_vars

\* The whole script, over well-formed files of up to MaxItems records; the
\* records' order in the file is not the alphabetical order of their questions.
WriteWellFormedRecord ==
    Len(results) < MaxItems /\ WriteRecord(Item(MaxItems - Len(results)))
NextRun ==
    \/ WriteWellFormedRecord
    \/ LoadDataset
    \/ StartEvaluate
    \/ Score
    \/ FinishEvaluate
    \/ Export
    \/ Analyse
SpecRun == Init /\ [][NextRun]_vars

\* ------------------------------------------------------------- claims
DocOps == {"embed_documents", "aembed_documents"}
Finished == pc \in {"returned", "raised"}

\* The sync method of an async one and the other way round.
Twin(o) ==
    CASE o = "embed_documents" -> "aembed_documents"
      [] o = "aembed_documents" -> "embed_documents"
      [] o = "embed_query" -> "aembed_query"
      [] o = "aembed_query" -> "embed_query"
      [] o = "_generate" -> "_agenerate"
      [] o = "_agenerate" -> "_generate"

\* The positions of t holding a backslash that an apostrophe follows at once.
EscapeAt(t) == {k \in 1..Len(t) : t[k] = Backslash /\ k < Len(t) /\ t[k + 1] = Apostrophe}
HasEscape(t) == EscapeAt(t) /= {}

\* t without the backslash of each backslash+apostrophe pair, every other
\* character kept at its place in the order.
Unescaped(t) ==
    LET keep == (1..Len(t)) \ EscapeAt(t) IN
    [j \in 1..Cardinality(keep) |->
        t[CHOOSE k \in keep : Cardinality({x \in keep : x <= k}) = j]]

\* C1: the text and the message content a finished _generate / _agenerate hands
\* back are the model's with each backslash+apostrophe pair turned into an
\* apostrophe and every other character unchanged and in order; a text with no
\* such pair comes back identical.
C1_RepairExact ==
    (pc = "returned" /\ op \in GenOps) =>
        /\ Len(ret) = Len(response.data)
        /\ \A k \in 1..Len(ret) :
            LET raw == response.data[k] IN
            /\ ret[k].text = Unescaped(raw.text)
            /\ ~HasEscape(raw.text) => ret[k].text = raw.text
            /\ ret[k].has_message = raw.has_message
            /\ raw.has_message => /\ ret[k].content = Unescaped(raw.content)
                                  /\ ~HasEscape(raw.content) => ret[k].content = raw.content

C1_Witness ==
    /\ pc = "returned"
    /\ op = "_agenerate"
    /\ Len(ret) = 1
    /\ response.data[1] = Generation(<<"a", Backslash, Apostrophe>>, TRUE, <<Backslash>>)
    /\ ret[1] = Generation(<<"a", Apostrophe>>, TRUE, <<Backslash>>)

\* C2: the repair is idempotent: repairing a text a finished _generate /
\* _agenerate handed back changes nothing.
C2_Idempotent ==
    (pc = "returned" /\ op \in GenOps) =>
        \A k \in 1..Len(ret) : _fix_json(ret[k].text) = ret[k].text

\* C3: embed_documents / aembed_documents return one vector per input entry,
\* the k-th being the provider's embedding of the k-th sanitized entry; for the
\* empty list they return the empty list and no request is ever sent.
C3_OneVectorPerText ==
    op \in DocOps =>
        /\ pc = "returned" =>
            /\ Len(ret) = Len(arg)
            /\ \A k \in 1..Len(arg) : /\ requests /= <<>>
                                       /\ ret[k] = EmbeddingOf(requests[1][k])
        /\ arg = <<>> => /\ requests = <<>>
                         /\ pc = "returned"
                         /\ ret = <<>>

C3_Witness ==
    /\ op = "aembed_documents"
    /\ pc = "returned"
    /\ arg = <<PyNone, PyStr("a")>>
    /\ ret = <<[embedding_of |-> "unknown"], [embedding_of |-> "a"]>>

\* The falsy objects among the inputs: None, "", 0, False, the empty list.
FalsyInputs == {PyNone, PyStr(""), PyInt(0), PyBool(FALSE), PyList(<<>>)}

\* C4: in every embedding request, a falsy input entry is sent as "unknown" at
\* its position and a non-empty text entry is sent unchanged; no entry sent is
\* null or empty.
C4_PayloadSanitized ==
    (op \in EmbedOps /\ requests /= <<>>) =>
        /\ Len(requests[1]) = Len(arg)
        /\ \A k \in 1..Len(arg) :
            LET sent == requests[1][k] IN
            /\ sent.type = "str"
            /\ sent.s /= ""
            /\ arg[k] \in FalsyInputs => sent = PyStr("unknown")
            /\ (arg[k].type = "str" /\ arg[k].s /= "") => sent = arg[k]

C4_Witness ==
    /\ op = "embed_documents"
    /\ pc = "waiting"
    /\ arg = <<PyStr(""), PyStr("a")>>
    /\ requests = << <<PyStr("unknown"), PyStr("a")>> >>

\* C5 as stated: every input entry that is not a str is sent as "unknown".
C5_NonTextBecomesUnknown ==
    (op \in EmbedOps /\ requests /= <<>>) =>
        \A k \in 1..Len(arg) : arg[k].type /= "str" => requests[1][k] = PyStr("unknown")

\* What str() gives for the non-str inputs that are not falsy.
Rendering(v) ==
    CASE v = PyInt(42) -> "42"
      [] v = PyInt(-7) -> "-7"
      [] v = PyBool(TRUE) -> "True"
      [] v = PyList(<<"c">>) -> "['c']"
      [] v = PyList(<<"c", "d">>) -> "['c', 'd']"

\* C5, amended: an input entry that is not a str is sent as "unknown" only when
\* it is falsy; any other is sent as its str() rendering, which is not the
\* placeholder.
C5_NonTextStringified ==
    (op \in EmbedOps /\ requests /= <<>>) =>
        \A k \in 1..Len(arg) :
            arg[k].type /= "str" =>
                IF arg[k] \in FalsyInputs THEN requests[1][k] = PyStr("unknown")
                ELSE /\ requests[1][k] = PyStr(Rendering(arg[k]))
                     /\ requests[1][k] /= PyStr("unknown")

C5_Witness ==
    /\ op = "embed_documents"
    /\ pc = "returned"
    /\ arg = <<PyInt(42), PyInt(0)>>
    /\ requests = << <<PyStr("42"), PyStr("unknown")>> >>

\* What the twin of the finished method does on the same argument and the same
\* answer of the remote side.
SameAsTwin ==
    /\ op \in EmbedOps =>
        /\ requests = SendOf(Twin(op), arg).requests
        /\ pc = "returned" => /\ exc = "none"
                              /\ IF requests = <<>> THEN ret = <<>>
                                 ELSE ret = ResultOf(Twin(op), response)
        /\ pc = "raised" => /\ exc = response.error
                            /\ exc \in ProviderErrors
                            /\ Len(requests) = 1
    /\ op \in GenOps =>
        /\ pc = "returned" => /\ exc = "none"
                              /\ ret = FixOf(Twin(op), response.data)
        /\ pc = "raised" => /\ exc = response.error
                            /\ exc \in ProviderErrors

\* C10 as stated: a finished sync method and its async twin send the same
\* payload in exactly one request and return the same result or raise the
\* provider's error unchanged, and _generate / _agenerate repair alike.
C10_ExactlyOneRequest ==
    Finished => /\ SameAsTwin
                /\ op \in EmbedOps => Len(requests) = 1

\* C10, amended: as stated, but embed_documents / aembed_documents on an empty
\* list send no request at all; every other embedding call sends exactly one.
C10_SyncAsyncEquivalent ==
    Finished => /\ SameAsTwin
                /\ op \in EmbedOps =>
                    Len(requests) = IF op \in DocOps /\ arg = <<>> THEN 0 ELSE 1

C10_Witness ==
    /\ pc = "returned"
    /\ op = "embed_query"
    /\ arg = <<PyNone>>
    /\ requests = << <<PyStr("unknown")>> >>
    /\ ret = <<[embedding_of |-> "unknown"]>>

\* ------------------------------------------------- claims on the script
Evaluated == spc \in {"evaluated", "exported", "done"}
Written == files.metrics_report /= NoFile

\* C6: with raise_exceptions=False a failed metric computation does not end the
\* run: its cell is kept as not computed after one attempt, every other cell
\* holds the judge's score, and the table has one row per input record.
C6_FailureTolerated ==
    /\ crashedAt /= "evaluate"
    /\ \A i \in 1..Len(attempts) : \A m \in Metrics : attempts[i][m] <= 1
    /\ Evaluated =>
        /\ Len(df) = Len(results)
        /\ \A i \in 1..Len(df) : \A m \in Metrics :
            /\ attempts[i][m] = 1
            /\ df[i].scores[m] \in {NaN, Judge(results[i].question, m)}
            /\ df[i].scores[m] = cells[i][m]

C6_Witness ==
    /\ spc = "done"
    /\ Len(df) = 2
    /\ df[1].scores["faithfulness"] = NaN
    /\ \A m \in Metrics \ {"faithfulness"} : df[1].scores[m] /= NaN
    /\ \A m \in Metrics : df[2].scores[m] = Judge(results[2].question, m)

\* C7: the rows of the table, and the lines of metrics_report.csv, are in the
\* order of the records of results.json whatever the order the cells finished
\* in, and each row holds the fields and the scores of the record at its index.
C7_RowOrderIsItemOrder ==
    /\ Evaluated =>
        /\ Len(df) = Len(results)
        /\ \A i \in 1..Len(df) :
            /\ \A f \in Fields : df[i][f] = results[i][f]
            /\ \A m \in Metrics : df[i].scores[m] \in {NaN, Judge(results[i].question, m)}
    /\ Written =>
        /\ Len(files.metrics_report) = 1 + Len(results)
        /\ \A i \in 1..Len(results) :
            /\ files.metrics_report[i + 1][1] = results[i].question.s
            /\ \A k \in 1..Len(req_metrics) :
                files.metrics_report[i + 1][4 + k]
                    \in {"", Judge(results[i].question, req_metrics[k])}

C7_Witness ==
    /\ spc = "exported"
    /\ outOfOrder
    /\ Len(results) = 2
    /\ files.metrics_report[2][1] = "q2"
    /\ files.metrics_report[3][1] = "q1"
    /\ files.metrics_report[3][5] = "score(q1,faithfulness)"

\* C8: the analysis stage starts only once metrics_report.csv is written; an
\* error while generating or saving the narrative is caught and printed and the
\* script ends normally; the analysis stage leaves metrics_report.csv as the
\* export wrote it.
C8_AnalysisBestEffort ==
    /\ crashedAt /= "analysis"
    /\ spc \in {"exported", "done"} => /\ Written
                                        /\ files.metrics_report = to_csv(df)
    /\ analysis /= "none" => spc = "done"
    /\ analysis \in AnalysisErrors =>
        console[Len(console)] = "Error generating analysis: " \o analysis

C8_Witness ==
    /\ spc = "done"
    /\ analysis = "OSError"
    /\ Len(results) = 2
    /\ files.metrics_report = to_csv(df)

\* C9 as stated: after loading, no field of any item is null or missing.
C9_LoadedNeverNull ==
    spc = "loaded" =>
        \A f \in Fields : \A i \in 1..Len(data[f]) : data[f][i] \notin {PyNone, Absent, KeyError}

\* C9, amended: after loading, every item holds its four fields exactly as the
\* record gives them, a null as a null; there is no empty-string fallback, and
\* a record that lacks a field ends the script while loading.
C9_LoadedAsGiven ==
    /\ spc = "loaded" =>
        \A f \in Fields :
            /\ Len(data[f]) = Len(results)
            /\ \A i \in 1..Len(results) : /\ results[i][f] /= Absent
                                            /\ data[f][i] = results[i][f]
    /\ (spc /= "start" /\ \E i \in 1..Len(results) : \E f \in Fields : results[i][f] = Absent) =>
        /\ spc = "crashed"
        /\ crashedAt = "load"

C9_Witness ==
    /\ spc = "loaded"
    /\ Len(results) = 1
    /\ results[1].answer = PyNone
    /\ data["answer"] = <<PyNone>>

====
